---- MODULE Spec2Model ----
(***************************************************************************)
(* Dependency-Graph-Builder: the conflict resolver, the DAG builder with   *)
(* its rank-maintained admission test, the transitive reducer and the      *)
(* sequence query, as a state machine.                                     *)
(*                                                                         *)
(* Operations are identified by the integers 1..NumOps (operation_id).     *)
(* A confidence is kept in hundredths (0.9 is 90), so that comparisons of  *)
(* the analyzers' literal confidences are exact.                           *)
(*                                                                         *)
(* DependencyGraphBuilder.build (dependency_graph/builder.py) submits each *)
(* resolved candidate to DependencyGraph.add_dependency_if_acyclic.  The   *)
(* only admission method of the repository that tests for cycles and       *)
(* returns a boolean is the rank-maintained DependencyGraph.add_dependency *)
(* of dependency_graph.py; the admission step is modelled from it.         *)
(***************************************************************************)
EXTENDS Integers, Sequences, FiniteSets, TLC

\* ------------------------------------------------------------------------
\* Bounds of the model
\* ------------------------------------------------------------------------
\* operations of a build, candidates the analyzers emit in a build
NumOps == 3
MaxCands == 3
\* direct calls of add_dependency on the graph object
MaxCalls == 3
\* operations and candidates handed to the conflict resolver alone
NumResolveOps == 2
MaxResolve == 3
\* operations of a parsed document that is built
NumModelOps == 4
\* operations handed to the parameter analyzer alone
NumParameterOps == 2
\* operations of a document whose executions are recorded, recorded executions
NumDynamicOps == 2
MaxExecutions == 10
\* recorded successful executions
MaxSuccesses == 2
\* operations of a document with enum parameters
NumEnumOps == 3
\* operations of a document that declares operation ids
NumCollisionOps == 3
\* operations handed to the CRUD analyzer alone
NumCrudOps == 2
\* the recursion limit of the interpreter, in calls of _extract_schema_properties
MaxDepth == 5

Ops == 1..NumOps
ResolveOps == 1..NumResolveOps

\* kind and confidence (in hundredths) of the candidates of a build: an exact
\* parameter match 1.0 (parameter_analyzer.py), CRUD create -> other 0.9
\* (crud_analyzer.py)
CandLabels ==
    { [type |-> "PARAMETER_DATA", confidence |-> 100],
      [type |-> "CRUD", confidence |-> 90] }

\* the candidates handed to the resolver alone: also the logical analyzer's
\* AUTHENTICATION 0.95 and AUTHORIZATION 0.9 (two kinds of one priority)
ResolveLabels ==
    CandLabels \cup
    { [type |-> "AUTHENTICATION", confidence |-> 95],
      [type |-> "AUTHORIZATION", confidence |-> 90] }

\* ------------------------------------------------------------------------
\* Data model
\* ------------------------------------------------------------------------
DependencyType ==
    { "PARAMETER_DATA", "CRUD", "AUTHENTICATION", "AUTHORIZATION",
      "NESTED_RESOURCE", "WORKFLOW", "CONSTRAINT", "TRANSITIVE", "DYNAMIC" }

\* Optional[...] = None
None == "None"

\* Dependency(source, target, type, confidence=..., parameter_mapping=...);
\* parameter_mapping is the dict as the set of its (key, value) pairs
NewDependency(source, target, type, confidence, parameter_mapping) ==
    [source |-> source, target |-> target, type |-> type, confidence |-> confidence,
     parameter_mapping |-> parameter_mapping, verified |-> None]

Dependency(s, t, l) == NewDependency(s, t, l.type, l.confidence, {})

Candidates == { Dependency(s, t, l) : s \in Ops, t \in Ops, l \in CandLabels }
ResolveCandidates ==
    { Dependency(s, t, l) : s \in ResolveOps, t \in ResolveOps, l \in ResolveLabels }

\* the position in build() of the analyzer that emits a kind: all_dependencies
\* is extended with param_deps, crud_deps, logical_deps, nested_deps,
\* constraint_deps in this order
analyzer_of(t) ==
    CASE t = "PARAMETER_DATA" -> 1
      [] t = "CRUD" -> 2
      [] t \in {"AUTHENTICATION", "WORKFLOW", "AUTHORIZATION"} -> 3
      [] t = "NESTED_RESOURCE" -> 4
      [] t = "CONSTRAINT" -> 5
      [] OTHER -> 6

\* key of dep_map: (dep.source.operation_id, dep.target.operation_id)
dep_key(d) == <<d.source, d.target>>

type_priority(t) ==
    CASE t = "CRUD" -> 0
      [] t = "AUTHENTICATION" -> 1
      [] t = "AUTHORIZATION" -> 1
      [] t = "WORKFLOW" -> 2
      [] t = "NESTED_RESOURCE" -> 2
      [] t = "CONSTRAINT" -> 3
      [] t = "PARAMETER_DATA" -> 4
      [] t = "TRANSITIVE" -> 5
      [] t = "DYNAMIC" -> 5
      [] OTHER -> 99

\* lexicographic order of the (priority, -confidence) tuples Python compares
TupleLT(a, b) == a[1] < b[1] \/ (a[1] = b[1] /\ a[2] < b[2])

SeqMax(s) == CHOOSE m \in { s[i] : i \in DOMAIN s } : \A i \in DOMAIN s : s[i] <= m

Front(s) == SubSeq(s, 1, Len(s) - 1)
Last(s) == s[Len(s)]

\* ------------------------------------------------------------------------
\* Conflict resolver (builder.py)
\* ------------------------------------------------------------------------

\* the sort key of build(): (type_priority.get(dep.type, 99), -dep.confidence)
_dependency_priority_confidence_only(dep) == <<0, -dep.confidence>>

_dependency_priority(dep) == <<type_priority(dep.type), -dep.confidence>>

\* list.sort(key=_dependency_priority): a stable sort, an element goes after
\* the earlier elements whose key is not greater
RECURSIVE insert_by_priority(_, _)
insert_by_priority(s, x) ==
    IF s = <<>> THEN <<x>>
    ELSE IF TupleLT(_dependency_priority(x), _dependency_priority(Head(s)))
         THEN <<x>> \o s
         ELSE <<Head(s)>> \o insert_by_priority(Tail(s), x)

\* mutant: the resolved list is processed unsorted
sort_by_priority_none(s) == s

RECURSIVE sort_by_priority(_)
sort_by_priority(s) ==
    IF s = <<>> THEN <<>>
    ELSE insert_by_priority(sort_by_priority(Front(s)), Last(s))

\* the sort key of _merge_dependencies, the same tuple from its own table
merge_key(d) == <<type_priority(d.type), -d.confidence>>

RECURSIVE insert_by_merge_key(_, _)
insert_by_merge_key(s, x) ==
    IF s = <<>> THEN <<x>>
    ELSE IF TupleLT(merge_key(x), merge_key(Head(s)))
         THEN <<x>> \o s
         ELSE <<Head(s)>> \o insert_by_merge_key(Tail(s), x)

RECURSIVE deps_sorted(_)
deps_sorted(deps) ==
    IF deps = <<>> THEN <<>>
    ELSE insert_by_merge_key(deps_sorted(Front(deps)), Last(deps))

\* mutant: the base keeps its own confidence
_merge_dependencies_keep_confidence(deps) == deps_sorted(deps)[1]

\* dict.update: the pairs of the argument replace those of the same key
dict_update(mapping, other) ==
    { p \in mapping : ~ \E q \in other : q[1] = p[1] } \cup other

\* for dep in reversed(deps_sorted): merged_params.update(dep.parameter_mapping)
RECURSIVE merged_params(_)
merged_params(sorted) ==
    IF sorted = <<>> THEN {}
    ELSE dict_update(merged_params(Tail(sorted)), Head(sorted).parameter_mapping)

_merge_dependencies(deps) ==
    LET base == deps_sorted(deps)[1]
        max_confidence == SeqMax([i \in DOMAIN deps |-> deps[i].confidence])
    IN  [base EXCEPT !.confidence = max_confidence,
                     !.parameter_mapping = merged_params(deps_sorted(deps))]

\* the keys of dep_map in insertion order (first occurrence of each pair)
RECURSIVE dep_map_keys(_)
dep_map_keys(dependencies) ==
    IF dependencies = <<>> THEN <<>>
    ELSE LET prev == dep_map_keys(Front(dependencies))
             key == dep_key(Last(dependencies))
         IN  IF \E i \in DOMAIN prev : prev[i] = key THEN prev ELSE Append(prev, key)

\* dep_map[key]: the candidates of one (source, target), in emission order
SameKey(d, key) == dep_key(d) = key
dep_map(dependencies, key) ==
    LET idx == { i \in DOMAIN dependencies : SameKey(dependencies[i], key) }
        RECURSIVE pick(_, _)
        pick(i, acc) == IF i > Len(dependencies) THEN acc
                        ELSE pick(i + 1, IF i \in idx THEN Append(acc, dependencies[i]) ELSE acc)
    IN  pick(1, <<>>)

\* merged: one dependency per key, in the insertion order of dep_map
merged_map(dependencies) ==
    LET keys == dep_map_keys(dependencies)
    IN  [i \in DOMAIN keys |->
            LET deps == dep_map(dependencies, keys[i])
            IN  IF Len(deps) = 1 THEN deps[1] ELSE _merge_dependencies(deps)]

\* the dependency the resolver keeps of dep and reverse_dep
bidirectional_choice_by_confidence(dep, reverse_dep) ==
    IF dep.confidence >= reverse_dep.confidence THEN dep ELSE reverse_dep

bidirectional_choice(dep, reverse_dep) ==
    LET dep_priority == type_priority(dep.type)
        rev_priority == type_priority(reverse_dep.type)
    IN  IF dep_priority < rev_priority THEN dep
        ELSE IF rev_priority < dep_priority THEN reverse_dep
        ELSE IF dep.confidence >= reverse_dep.confidence THEN dep
        ELSE reverse_dep

RECURSIVE resolve_loop(_, _, _, _)
resolve_loop(m, i, resolved, processed) ==
    IF i > Len(m) THEN resolved
    ELSE LET dep == m[i]
             key == dep_key(dep)
             reverse_key == <<dep.target, dep.source>>
         IN  IF key \in processed THEN resolve_loop(m, i + 1, resolved, processed)
             ELSE IF \E j \in DOMAIN m : dep_key(m[j]) = reverse_key
                  THEN LET reverse_dep == m[CHOOSE j \in DOMAIN m : dep_key(m[j]) = reverse_key]
                       IN  resolve_loop(m, i + 1,
                                        Append(resolved, bidirectional_choice(dep, reverse_dep)),
                                        processed \cup {key, reverse_key})
                  ELSE resolve_loop(m, i + 1, Append(resolved, dep), processed \cup {key})

\* mutant: no bidirectional resolution (the resolver of the single-file module)
_resolve_bidirectional_conflicts_none(m) == m

_resolve_bidirectional_conflicts(m) == resolve_loop(m, 1, <<>>, {})

_resolve_conflicts(dependencies) ==
    _resolve_bidirectional_conflicts(merged_map(dependencies))

\* ------------------------------------------------------------------------
\* Graph (networkx DiGraph: node set, edge set, edge attributes)
\* ------------------------------------------------------------------------
EmptyGraph == [nodes |-> {}, edges |-> {}, data |-> <<>>]

\* the attributes add_edge stores beside the dependency object
edge_attributes(dependency) ==
    [dep_type |-> dependency.type, weight |-> 100 - dependency.confidence]

\* an edge nx.transitive_reduction created: it carries no attributes
NoAttributes == [dep_type |-> "none", weight |-> 0]

successors(E, n) == { e[2] : e \in { x \in E : x[1] = n } }
predecessors(E, n) == { e[1] : e \in { x \in E : x[2] = n } }

RECURSIVE reach_set(_, _)
reach_set(E, S) ==
    LET N == S \cup { e[2] : e \in { x \in E : x[1] \in S } }
    IN  IF N = S THEN S ELSE reach_set(E, N)

\* nx.descendants / nx.ancestors: the nodes joined by a path of length >= 1
descendants(E, n) == reach_set(E, successors(E, n))
ancestors(E, n) == { m \in { e[1] : e \in E } : n \in descendants(E, m) }

\* mutant: only a direct edge counts as a path
has_path_direct(E, source, target) == source = target \/ <<source, target>> \in E

\* nx.has_path(G, source, target); a node reaches itself
has_path(E, source, target) == target \in reach_set(E, {source})

is_directed_acyclic_graph(E) == \A e \in E : e[1] \notin descendants(E, e[1])

RECURSIVE SetToSeq(_)
SetToSeq(S) ==
    IF S = {} THEN <<>>
    ELSE LET m == CHOOSE x \in S : \A y \in S : x <= y
         IN  <<m>> \o SetToSeq(S \ {m})

\* a rank is at most |V| - 1 while the graph is acyclic; the propagation loop
\* is cut where a rank would pass RankCap (there the code's loop never ends)
RankCap == NumOps

\* for successor_id in self.graph.successors(current_id): ...
RECURSIVE relax_successors(_, _, _)
relax_successors(current_id, succ, st) ==
    IF succ = <<>> THEN st
    ELSE LET successor_id == Head(succ)
             r == st.ranks
         IN  IF r[current_id] + 1 > r[successor_id] /\ r[current_id] + 1 <= RankCap
             THEN relax_successors(current_id, Tail(succ),
                      [ranks |-> [r EXCEPT ![successor_id] = r[current_id] + 1],
                       q |-> Append(st.q, successor_id)])
             ELSE relax_successors(current_id, Tail(succ), st)

\* while q: current_id = q.popleft(); ...
RECURSIVE update_ranks_loop(_, _, _)
update_ranks_loop(E, r, q) ==
    IF q = <<>> THEN r
    ELSE LET st == relax_successors(Head(q), SetToSeq(successors(E, Head(q))),
                                    [ranks |-> r, q |-> Tail(q)])
         IN  update_ranks_loop(E, st.ranks, st.q)

\* mutant: the rank of the source is raised above the target (arguments swapped)
_update_ranks_swapped(E, r, source_id, target_id) ==
    [r EXCEPT ![source_id] = r[target_id] + 1]

\* mutant: the rank of the target is set and not propagated to its descendants
_update_ranks_target_only(E, r, source_id, target_id) ==
    [r EXCEPT ![target_id] = r[source_id] + 1]

_update_ranks(E, r, source_id, target_id) ==
    update_ranks_loop(E, [r EXCEPT ![target_id] = r[source_id] + 1], <<target_id>>)

\* DependencyGraph.add_operation
add_operation(g, op_id) ==
    IF op_id \in g.operations THEN g
    ELSE [g EXCEPT !.operations = @ \cup {op_id},
                   !.graph.nodes = @ \cup {op_id},
                   !.ranks = (op_id :> 0) @@ @]

\* graph.add_edge(source_id, target_id, dependency=..., dep_type=..., weight=...)
add_edge(graph, dependency) ==
    LET e == <<dependency.source, dependency.target>>
    IN  [nodes |-> graph.nodes \cup {dependency.source, dependency.target},
         edges |-> graph.edges \cup {e},
         data |-> [x \in graph.edges \cup {e} |->
                      IF x = e THEN edge_attributes(dependency) ELSE graph.data[x]]]

\* mutant: the edge is inserted without any test
add_dependency_unconditional(g, dependency) ==
    [added |-> TRUE,
     g |-> [g EXCEPT !.dependencies = Append(@, dependency),
                     !.graph = add_edge(@, dependency)]]

\* DependencyGraph.add_dependency: the admission test; g is the DependencyGraph
\* object (operations, graph, dependencies, ranks)
add_dependency(g, dependency) ==
    LET source_id == dependency.source
        target_id == dependency.target
        E == g.graph.edges
    IN  IF source_id = target_id THEN [added |-> FALSE, g |-> g]
        ELSE IF g.ranks[source_id] >= g.ranks[target_id] /\ has_path(E, target_id, source_id)
        THEN [added |-> FALSE, g |-> g]
        ELSE LET graph2 == add_edge(g.graph, dependency)
                 ranks2 == IF g.ranks[source_id] + 1 > g.ranks[target_id]
                           THEN _update_ranks(graph2.edges, g.ranks, source_id, target_id)
                           ELSE g.ranks
             IN  [added |-> TRUE,
                  g |-> [g EXCEPT !.dependencies = Append(@, dependency),
                                  !.graph = graph2,
                                  !.ranks = ranks2]]

\* mutant: the graph is returned as built
transitive_reduction_skipped(graph) == graph

\* mutant: an edge is dropped whenever its target has another predecessor
transitive_reduction_by_predecessor(graph) ==
    LET E == graph.edges
        TR == { e \in E : ~ \E f \in E : f[2] = e[2] /\ f[1] # e[1] }
    IN  [nodes |-> graph.nodes, edges |-> TR, data |-> [e \in TR |-> NoAttributes]]

\* nx.transitive_reduction(G): a new graph on the same nodes that keeps the edge
\* u -> v unless v is a descendant of another successor of u
transitive_reduction(graph) ==
    LET E == graph.edges
        TR == { e \in E : ~ \E w \in successors(E, e[1]) : e[2] \in descendants(E, w) }
    IN  [nodes |-> graph.nodes, edges |-> TR, data |-> [e \in TR |-> NoAttributes]]

RECURSIVE Perms(_)
Perms(S) ==
    IF S = {} THEN { <<>> }
    ELSE UNION { { <<x>> \o p : p \in Perms(S \ {x}) } : x \in S }

\* nx.topological_sort of the subgraph induced by N: the generations of Kahn's
\* algorithm one after the other; the order inside a generation follows the
\* insertion order of nodes and adjacency, which the model leaves open.
\* The empty set means NetworkXUnfeasible (a cycle).
RECURSIVE topological_sort(_, _)
topological_sort(N, E) ==
    IF N = {} THEN { <<>> }
    ELSE LET zero == { n \in N : predecessors(E, n) \cap N = {} }
         IN  IF zero = {} THEN {}
             ELSE { p \o rest : p \in Perms(zero),
                                rest \in topological_sort(N \ zero, E) }

\* ------------------------------------------------------------------------
\* State
\* ------------------------------------------------------------------------
VARIABLES
    pc,                \* position in DependencyGraphBuilder.build
    operations,        \* DependencyGraph.operations (the ids)
    graph,             \* DependencyGraph.graph
    dependencies,      \* DependencyGraph.dependencies
    ranks,             \* DependencyGraph.ranks
    all_dependencies,  \* build: the candidates of the analyzers
    merged,            \* _resolve_conflicts: the merged dependency of each key
    resolved_deps,     \* build: the resolved (then sorted) candidates
    next_dep,          \* build: index of the candidate the loop is at
    added_count,       \* build: admitted candidates
    skipped_count,     \* build: rejected candidates
    submitted,         \* build: the candidates handed to the admission test so far
    last_call,         \* the last admission call and its result
    calls,             \* number of direct add_dependency calls
    sequence,          \* result of the last get_operation_sequence
    builder_operations, \* DependencyGraphBuilder.operations (the parsed list)
    previous_build,    \* the triples of the graph an earlier build of the same
                       \* document returned
    execution_history, \* DynamicDependencyManager.execution_history
    last_execution,    \* the last record_execution call and how it ended
    schemas,           \* OpenAPIParser.schemas (components.schemas by name)
    call_stack,        \* the active calls of _extract_schema_properties
    properties         \* the property names the calls have added so far

vars == <<pc, operations, graph, dependencies, ranks, all_dependencies, merged,
          resolved_deps, next_dep, added_count, skipped_count, submitted,
          last_call, calls, sequence, builder_operations, previous_build,
          execution_history, last_execution, schemas, call_stack, properties>>

parser_vars == <<schemas, call_stack, properties>>

model_vars == <<builder_operations, previous_build, execution_history, last_execution>>

build_locals ==
    <<all_dependencies, merged, resolved_deps, next_dep, added_count,
      skipped_count, submitted>>

NoCall ==
    [called |-> FALSE,
     dependency |-> Dependency(0, 0, [type |-> "none", confidence |-> 0]),
     added |-> FALSE]
NoSequence == [operation |-> 0, status |-> "none", seq |-> <<>>]
NoBuild == [built |-> FALSE, triples |-> {}]
NoExecution == [operation |-> 0, success |-> FALSE, status |-> "none"]

\* the DependencyGraph object as one value
self_graph ==
    [operations |-> operations, graph |-> graph,
     dependencies |-> dependencies, ranks |-> ranks]

Init ==
    /\ pc = "start"
    /\ operations = {}
    /\ graph = EmptyGraph
    /\ dependencies = <<>>
    /\ ranks = <<>>
    /\ all_dependencies = <<>>
    /\ merged = <<>>
    /\ resolved_deps = <<>>
    /\ next_dep = 0
    /\ added_count = 0
    /\ skipped_count = 0
    /\ submitted = <<>>
    /\ last_call = NoCall
    /\ calls = 0
    /\ sequence = NoSequence
    /\ builder_operations = <<>>
    /\ previous_build = NoBuild
    /\ execution_history = <<>>
    /\ last_execution = NoExecution
    /\ schemas = <<>>
    /\ call_stack = <<>>
    /\ properties = {}

\* one call of the admission test on the current graph
Admit(dependency) ==
    LET r == add_dependency(self_graph, dependency)
    IN  /\ operations' = r.g.operations
        /\ graph' = r.g.graph
        /\ dependencies' = r.g.dependencies
        /\ ranks' = r.g.ranks
        /\ last_call' = [called |-> TRUE, dependency |-> dependency, added |-> r.added]

\* ------------------------------------------------------------------------
\* DependencyGraphBuilder.build, step by step
\* ------------------------------------------------------------------------
RECURSIVE add_operations(_, _)
add_operations(g, ops) ==
    IF ops = <<>> THEN g ELSE add_operations(add_operation(g, Head(ops)), Tail(ops))

\* Steps 1-2: the parsed operations become the nodes of the graph
BuildAddOperations ==
    /\ pc = "start"
    /\ operations = {}
    /\ LET g == add_operations(self_graph, SetToSeq(Ops))
       IN  /\ operations' = g.operations
           /\ graph' = g.graph
           /\ ranks' = g.ranks
    /\ pc' = "analyze"
    /\ UNCHANGED <<model_vars, parser_vars>>
    /\ UNCHANGED <<dependencies, build_locals, last_call, calls, sequence>>

\* Step 3: the running analyzer, or a later one, appends one candidate
BuildAnalyze ==
    /\ pc = "analyze"
    /\ Len(all_dependencies) < MaxCands
    /\ \E dep \in Candidates :
          /\ IF all_dependencies = <<>> THEN TRUE
             ELSE analyzer_of(Last(all_dependencies).type) <= analyzer_of(dep.type)
          /\ all_dependencies' = Append(all_dependencies, dep)
    /\ UNCHANGED <<model_vars, parser_vars>>
    /\ UNCHANGED <<pc, operations, graph, dependencies, ranks, merged, resolved_deps,
                   next_dep, added_count, skipped_count, submitted, last_call,
                   calls, sequence>>

\* Step 4, first half: _resolve_conflicts, then the sort by _dependency_priority
BuildResolve ==
    /\ pc = "analyze"
    /\ merged' = merged_map(all_dependencies)
    /\ resolved_deps' = sort_by_priority(_resolve_conflicts(all_dependencies))
    /\ next_dep' = 1
    /\ pc' = "admit"
    /\ UNCHANGED <<model_vars, parser_vars>>
    /\ UNCHANGED <<operations, graph, dependencies, ranks, all_dependencies,
                   added_count, skipped_count, submitted, last_call, calls, sequence>>

\* Step 4, the loop body: one candidate goes through the admission test
BuildAdmit ==
    /\ pc = "admit"
    /\ next_dep <= Len(resolved_deps)
    /\ Admit(resolved_deps[next_dep])
    /\ submitted' = Append(submitted, resolved_deps[next_dep])
    /\ next_dep' = next_dep + 1
    /\ added_count' = IF last_call'.added THEN added_count + 1 ELSE added_count
    /\ skipped_count' = IF last_call'.added THEN skipped_count ELSE skipped_count + 1
    /\ UNCHANGED <<model_vars, parser_vars>>
    /\ UNCHANGED <<pc, all_dependencies, merged, resolved_deps, calls, sequence>>

\* Step 5: the graph is replaced by its transitive reduction and build returns;
\* its locals are gone (nx.transitive_reduction raises on a graph with a cycle)
BuildReduce ==
    /\ pc = "admit"
    /\ next_dep > Len(resolved_deps)
    /\ IF is_directed_acyclic_graph(graph.edges)
       THEN /\ graph' = transitive_reduction(graph)
            /\ pc' = "done"
       ELSE /\ graph' = graph
            /\ pc' = "error"
    /\ all_dependencies' = <<>>
    /\ merged' = <<>>
    /\ resolved_deps' = <<>>
    /\ next_dep' = 0
    /\ added_count' = 0
    /\ skipped_count' = 0
    /\ submitted' = <<>>
    /\ last_call' = NoCall
    /\ UNCHANGED <<model_vars, parser_vars>>
    /\ UNCHANGED <<operations, dependencies, ranks, calls, sequence>>

\* ------------------------------------------------------------------------
\* Operation model (parser.py, operation.py)
\* ------------------------------------------------------------------------
\* a path is the sequence of its segments between the slashes; a segment is a
\* literal name or a path parameter {name}
Lit(name) == [name |-> name, param |-> FALSE]
Par(name) == [name |-> name, param |-> TRUE]

\* OpenAPIParser._extract_resource_type: the last segment of
\* path.split('{')[0].rstrip('/'), None when there is none
_extract_resource_type(path) ==
    LET params == { i \in DOMAIN path : path[i].param }
        clean == IF params = {} THEN Len(path)
                 ELSE (CHOOSE i \in params : \A j \in params : i <= j) - 1
    IN  IF clean = 0 THEN None ELSE path[clean].name

\* the Operation the parser builds of one (path, method) entry: shape gives
\* what the document declares, operation_id is its position in the list
Operation(operation_id, shape) ==
    [operation_id |-> operation_id,
     path |-> shape.path,
     method |-> shape.method,
     security |-> shape.security,
     keywords |-> shape.keywords,
     consumes |-> shape.consumes,
     produces |-> shape.produces,
     path_params |-> shape.path_params,
     optional |-> shape.optional,
     multi |-> shape.multi,
     enums |-> shape.enums,
     resource_type |-> _extract_resource_type(shape.path)]

\* str.lower() on the parameter names of the model
lower(name) ==
    CASE name = "Id" -> "id"
      [] name = "petId" -> "petid"
      [] name = "Search" -> "search"
      [] OTHER -> name

\* param.lower().replace('_', '').replace('-', '')
normal(name) ==
    CASE lower(name) = "pet_id" -> "petid"
      [] OTHER -> lower(name)

\* iteration over a set of names: the order of the hash table, one order of
\* all names per process
RECURSIVE iterate(_, _)
iterate(S, hash_order) ==
    IF hash_order = <<>> THEN <<>>
    ELSE IF Head(hash_order) \in S
         THEN <<Head(hash_order)>> \o iterate(S, Tail(hash_order))
         ELSE iterate(S, Tail(hash_order))

RECURSIVE Concat(_)
Concat(ss) == IF ss = <<>> THEN <<>> ELSE Head(ss) \o Concat(Tail(ss))

\* the elements of a sequence without repetition, in the order of their first
\* occurrence (the keys of a dict in insertion order)
RECURSIVE Keys(_)
Keys(s) ==
    IF s = <<>> THEN <<>>
    ELSE LET prev == Keys(Front(s))
         IN  IF \E i \in DOMAIN prev : prev[i] = Last(s) THEN prev
             ELSE Append(prev, Last(s))

\* ------------------------------------------------------------------------
\* ParameterDependencyAnalyzer (parameter_analyzer.py)
\* ------------------------------------------------------------------------
GENERIC_PARAMS ==
    { "id", "name", "status", "type", "description", "created_at", "updated_at",
      "timestamp", "count", "total", "data", "result", "message", "code",
      "error", "success", "page", "limit", "offset" }

\* resource = op.resource_type or '__global__'
resource_of(op) == IF op.resource_type = None THEN "__global__" ELSE op.resource_type

\* the keys (param, resource) of the producers dict in insertion order
producers_keys(operations_list, hash_order) ==
    Keys(Concat([i \in DOMAIN operations_list |->
            LET op == operations_list[i]
                names == iterate(op.produces, hash_order)
            IN  [k \in DOMAIN names |-> <<names[k], resource_of(op)>>]]))

consumers_keys(operations_list, hash_order) ==
    Keys(Concat([i \in DOMAIN operations_list |->
            LET op == operations_list[i]
                names == iterate(op.consumes, hash_order)
            IN  [k \in DOMAIN names |-> <<names[k], resource_of(op)>>]]))

\* producers[key], consumers[key]: the operations of a key in list order
producers_of(operations_list, key) ==
    SelectSeq(operations_list,
              LAMBDA op : key[1] \in op.produces /\ resource_of(op) = key[2])

consumers_of(operations_list, key) ==
    SelectSeq(operations_list,
              LAMBDA op : key[1] \in op.consumes /\ resource_of(op) = key[2])

_should_link_resources(param_name, prod_resource, cons_resource) ==
    IF prod_resource = cons_resource THEN TRUE
    ELSE IF lower(param_name) \in GENERIC_PARAMS THEN FALSE
    ELSE lower(param_name) \in {"petid", "pet_id"}

\* any(action in consumer.path.lower() for action in [login, logout, search, find])
path_has_action(path) ==
    \E i \in DOMAIN path :
        lower(path[i].name) \in {"login", "logout", "search", "find"}

\* mutant: the methods of producer and consumer are taken the other way round
_is_semantic_backward_swapped(producer, consumer) ==
    IF producer.resource_type # consumer.resource_type THEN FALSE
    ELSE IF producer.method = "POST" /\ consumer.method = "GET"
         THEN ~path_has_action(consumer.path)
         ELSE FALSE

_is_semantic_backward(producer, consumer) ==
    IF producer.resource_type # consumer.resource_type THEN FALSE
    ELSE IF producer.method = "GET" /\ consumer.method = "POST"
         THEN ~path_has_action(consumer.path)
         ELSE FALSE

\* in hundredths: 1.0, times 0.8 for a name several responses of the producer
\* produce, times 0.7 for a declared parameter of the consumer not required
_calculate_confidence(producer, consumer, param) ==
    LET c1 == IF param \in producer.multi THEN 80 ELSE 100
    IN  IF param \in consumer.optional THEN (c1 * 7) \div 10 ELSE c1

\* the names of the model differ by case, '_' or '-' only, or have a
\* similarity ratio of at most 0.8 and share no list of variations
_are_parameter_variants(param1, param2) == normal(param1) = normal(param2)

\* the candidates of one producer key and one consumer key: for producer in
\* prod_ops: for consumer in cons_ops: ...
pair_dependencies(prod_ops, cons_ops, confidence_of, prod_param, cons_param) ==
    Concat([a \in DOMAIN prod_ops |->
        Concat([b \in DOMAIN cons_ops |->
            LET producer == prod_ops[a]
                consumer == cons_ops[b]
            IN  IF producer = consumer THEN <<>>
                ELSE IF _is_semantic_backward(producer, consumer) THEN <<>>
                ELSE << NewDependency(producer.operation_id, consumer.operation_id,
                                      "PARAMETER_DATA", confidence_of[a][b],
                                      {<<prod_param, cons_param>>}) >>])])

_fuzzy_parameter_matching(operations_list, hash_order) ==
    LET pkeys == producers_keys(operations_list, hash_order)
        ckeys == consumers_keys(operations_list, hash_order)
    IN  Concat([i \in DOMAIN pkeys |->
            Concat([j \in DOMAIN ckeys |->
                IF pkeys[i][1] = ckeys[j][1] THEN <<>>
                ELSE IF pkeys[i][2] # ckeys[j][2] THEN <<>>
                ELSE IF ~_are_parameter_variants(pkeys[i][1], ckeys[j][1]) THEN <<>>
                ELSE LET prod_ops == producers_of(operations_list, pkeys[i])
                         cons_ops == consumers_of(operations_list, ckeys[j])
                     IN  pair_dependencies(prod_ops, cons_ops,
                             [a \in DOMAIN prod_ops |-> [b \in DOMAIN cons_ops |-> 60]],
                             pkeys[i][1], ckeys[j][1])])])

\* ParameterDependencyAnalyzer.analyze: the exact matches, then the fuzzy ones
parameter_analyze(operations_list, hash_order) ==
    LET pkeys == producers_keys(operations_list, hash_order)
        ckeys == consumers_keys(operations_list, hash_order)
        exact ==
            Concat([i \in DOMAIN pkeys |->
                Concat([j \in DOMAIN ckeys |->
                    IF pkeys[i][1] # ckeys[j][1] THEN <<>>
                    ELSE IF ~_should_link_resources(pkeys[i][1], pkeys[i][2], ckeys[j][2])
                         THEN <<>>
                    ELSE LET prod_ops == producers_of(operations_list, pkeys[i])
                             cons_ops == consumers_of(operations_list, ckeys[j])
                         IN  pair_dependencies(prod_ops, cons_ops,
                                 [a \in DOMAIN prod_ops |-> [b \in DOMAIN cons_ops |->
                                     _calculate_confidence(prod_ops[a], cons_ops[b],
                                                           pkeys[i][1])]],
                                 pkeys[i][1], ckeys[j][1])])])
    IN  exact \o _fuzzy_parameter_matching(operations_list, hash_order)

\* ------------------------------------------------------------------------
\* CRUDDependencyAnalyzer (crud_analyzer.py)
\* ------------------------------------------------------------------------
\* mutant: the method is not looked at
_is_true_create_any_method(op) ==
    IF op.path = <<>> THEN TRUE
    ELSE IF Last(op.path).param THEN FALSE
    ELSE ~ \E i \in 1..(Len(op.path) - 1) : op.path[i].param

_is_true_create(op) ==
    IF op.method # "POST" THEN FALSE
    ELSE IF op.path = <<>> THEN TRUE
    ELSE IF Last(op.path).param THEN FALSE
    ELSE ~ \E i \in 1..(Len(op.path) - 1) : op.path[i].param

\* the names of the segments that are not path parameters
base_of(path) == SelectSeq(path, LAMBDA seg : ~seg.param)

_is_crud_related(op1, op2) ==
    IF op1.resource_type # op2.resource_type THEN FALSE
    ELSE LET base1 == base_of(op1.path)
             base2 == base_of(op2.path)
             set1 == { base1[i] : i \in DOMAIN base1 }
             set2 == { base2[i] : i \in DOMAIN base2 }
         IN  base1 = base2 \/ set1 \subseteq set2 \/ set2 \subseteq set1

\* for a in sources: for b in targets: if _is_crud_related(a, b): Dependency(...)
crud_pairs(sources, targets, confidence) ==
    Concat([a \in DOMAIN sources |->
        Concat([b \in DOMAIN targets |->
            IF _is_crud_related(sources[a], targets[b])
            THEN << NewDependency(sources[a].operation_id, targets[b].operation_id,
                                  "CRUD", confidence, {}) >>
            ELSE <<>>])])

\* mutant: no READ -> UPDATE candidates
crud_of_resource_without_read_update(ops) ==
    LET creates == SelectSeq(ops, LAMBDA op : _is_true_create(op))
        reads == SelectSeq(ops, LAMBDA op : op.method = "GET")
        updates == SelectSeq(ops, LAMBDA op : op.method \in {"PUT", "PATCH"})
        deletes == SelectSeq(ops, LAMBDA op : op.method = "DELETE")
    IN  crud_pairs(creates, reads, 90) \o crud_pairs(creates, updates, 90)
            \o crud_pairs(creates, deletes, 90)

\* the candidates of the operations of one resource
crud_of_resource(ops) ==
    LET creates == SelectSeq(ops, LAMBDA op : _is_true_create(op))
        reads == SelectSeq(ops, LAMBDA op : op.method = "GET")
        post_updates ==
            SelectSeq(ops, LAMBDA op : op.method = "POST" /\ ~_is_true_create(op))
        updates ==
            SelectSeq(ops, LAMBDA op : op.method \in {"PUT", "PATCH"}) \o post_updates
        deletes == SelectSeq(ops, LAMBDA op : op.method = "DELETE")
    IN  crud_pairs(creates, reads, 90) \o crud_pairs(creates, updates, 90)
            \o crud_pairs(creates, deletes, 90) \o crud_pairs(reads, updates, 60)

\* CRUDDependencyAnalyzer.analyze: resource by resource, in the order in which
\* the resources first occur
crud_analyze(operations_list) ==
    LET with_resource == SelectSeq(operations_list, LAMBDA op : op.resource_type # None)
        resources == Keys([i \in DOMAIN with_resource |-> with_resource[i].resource_type])
    IN  Concat([r \in DOMAIN resources |->
            crud_of_resource(SelectSeq(with_resource,
                                       LAMBDA op : op.resource_type = resources[r]))])

\* ------------------------------------------------------------------------
\* LogicalDependencyAnalyzer (logical_analyzer.py)
\* ------------------------------------------------------------------------
\* op.keywords: the keyword lists (AUTH, SIGNUP, LOGOUT, ADMIN) of which a
\* keyword occurs in the operation id, the path or a tag
_find_operations_by_keywords(operations_list, keywords) ==
    SelectSeq(operations_list, LAMBDA op : keywords \in op.keywords)

\* for a in sources: for b in targets: Dependency(source=a, target=b, ...)
logical_pairs(sources, targets, type, confidence) ==
    Concat([a \in DOMAIN sources |->
        [b \in DOMAIN targets |->
            NewDependency(sources[a].operation_id, targets[b].operation_id,
                          type, confidence, {})]])

_analyze_authentication_deps(operations_list, auth_ops) ==
    Concat([i \in DOMAIN operations_list |->
        LET op == operations_list[i]
        IN  IF \E k \in DOMAIN auth_ops : auth_ops[k] = op THEN <<>>
            ELSE IF op.security
                 THEN logical_pairs(auth_ops, <<op>>, "AUTHENTICATION", 95)
            ELSE IF op.path_params # {} /\ op.method # "GET"
                 THEN logical_pairs(auth_ops, <<op>>, "AUTHENTICATION", 70)
            ELSE <<>>])

\* LogicalDependencyAnalyzer.analyze
logical_analyze(operations_list) ==
    LET auth_ops == _find_operations_by_keywords(operations_list, "AUTH")
        signup_ops == _find_operations_by_keywords(operations_list, "SIGNUP")
        admin_ops == _find_operations_by_keywords(operations_list, "ADMIN")
    IN  _analyze_authentication_deps(operations_list, auth_ops)
            \o logical_pairs(signup_ops, auth_ops, "WORKFLOW", 80)
            \o Concat([a \in DOMAIN admin_ops |->
                   logical_pairs(auth_ops, <<admin_ops[a]>>, "AUTHORIZATION", 90)])

\* ------------------------------------------------------------------------
\* NestedResourceAnalyzer (nested_analyzer.py)
\* ------------------------------------------------------------------------
\* the POST operations whose path is a proper prefix of the operation's path
_find_parent_operations(operation, operations_list) ==
    Concat([i \in 1..(Len(operation.path) - 1) |->
        SelectSeq(operations_list,
                  LAMBDA op : op.path = SubSeq(operation.path, 1, i) /\ op.method = "POST")])

nested_analyze(operations_list) ==
    Concat([i \in DOMAIN operations_list |->
        logical_pairs(_find_parent_operations(operations_list[i], operations_list),
                      <<operations_list[i]>>, "NESTED_RESOURCE", 85)])

\* ------------------------------------------------------------------------
\* ConstraintDependencyAnalyzer (constraint_analyzer.py)
\* ------------------------------------------------------------------------
\* enum_setters: the keys "resource_type.name" in insertion order; op.enums
\* lists the declared parameters with an enum constraint
enum_setter_keys(operations_list) ==
    Keys(Concat([i \in DOMAIN operations_list |->
            [k \in DOMAIN operations_list[i].enums |->
                <<operations_list[i].resource_type, operations_list[i].enums[k]>>]]))

\* the setters of a key: one entry per declaring parameter
enum_setters_of(operations_list, key) ==
    Concat([i \in DOMAIN operations_list |->
        LET op == operations_list[i]
        IN  IF op.resource_type = key[1]
            THEN [k \in DOMAIN SelectSeq(op.enums, LAMBDA n : n = key[2]) |-> op]
            ELSE <<>>])

\* the key of a setter without resource reads "None.name": its resource part
\* is the string 'None', which is the resource_type of no operation of the model
_analyze_enum_constraints(operations_list) ==
    LET keys == enum_setter_keys(operations_list)
    IN  Concat([k \in DOMAIN keys |->
            IF keys[k][1] = None THEN <<>>
            ELSE Concat([i \in DOMAIN operations_list |->
                    LET op == operations_list[i]
                        setters == enum_setters_of(operations_list, keys[k])
                    IN  IF op.resource_type # keys[k][1] THEN <<>>
                        ELSE Concat([s \in DOMAIN setters |->
                                IF setters[s] = op THEN <<>>
                                ELSE << NewDependency(setters[s].operation_id,
                                                      op.operation_id,
                                                      "CONSTRAINT", 60, {}) >>])])])

constraint_analyze(operations_list) == _analyze_enum_constraints(operations_list)

\* name.split('.'): the names of the model hold at most one '.'
split_dot(name) ==
    CASE name = "filter.status" -> <<"filter", "status">>
      [] OTHER -> <<name>>

\* resource_type, param_name = key.split('.') raises ValueError unless the key
\* f"{op.resource_type}.{param.name}" splits in exactly two parts
enum_constraints_raise(operations_list) ==
    LET keys == enum_setter_keys(operations_list)
    IN  \E k \in DOMAIN keys :
            Len(split_dot(keys[k][1])) + Len(split_dot(keys[k][2])) # 2

\* ------------------------------------------------------------------------
\* DependencyGraphBuilder.build as one operation
\* ------------------------------------------------------------------------
\* Step 3: all_dependencies, extended analyzer by analyzer
analyze_all(operations_list, hash_order) ==
    parameter_analyze(operations_list, hash_order)
        \o crud_analyze(operations_list)
        \o logical_analyze(operations_list)
        \o nested_analyze(operations_list)
        \o constraint_analyze(operations_list)

\* Step 4, the loop: for dep in resolved_deps: add_dependency_if_acyclic(dep)
RECURSIVE admit_all(_, _)
admit_all(g, resolved) ==
    IF resolved = <<>> THEN g
    ELSE admit_all(add_dependency(g, Head(resolved)).g, Tail(resolved))

\* the DependencyGraph object a new builder holds
NewGraph == [operations |-> {}, graph |-> EmptyGraph, dependencies |-> <<>>, ranks |-> <<>>]

\* build() left by the exception of an analyzer: no statement of build() catches
\* it, the builder's graph holds the operations and no dependency
build_aborted(operations_list) ==
    add_operations(NewGraph,
                   [i \in DOMAIN operations_list |-> operations_list[i].operation_id])

\* build(): the DependencyGraph returned for the parsed operations
build(operations_list, hash_order) ==
    LET g0 == add_operations(NewGraph,
                             [i \in DOMAIN operations_list |->
                                 operations_list[i].operation_id])
        resolved == sort_by_priority(
                        _resolve_conflicts(analyze_all(operations_list, hash_order)))
        g1 == admit_all(g0, resolved)
    IN  [g1 EXCEPT !.graph = transitive_reduction(@)]

\* ------------------------------------------------------------------------
\* Query surface
\* ------------------------------------------------------------------------
\* mutant: the sequence is taken over the descendants
get_operation_sequence_descendants(g, operation_id) ==
    topological_sort(descendants(g.edges, operation_id) \cup {operation_id}, g.edges)

\* DependencyGraph.get_operation_sequence: the possible results for a node of
\* the graph
get_operation_sequence(g, operation_id) ==
    topological_sort(ancestors(g.edges, operation_id) \cup {operation_id}, g.edges)

\* CompleteDependencyGraphBuilder.get_operation_sequence on the built graph
GetOperationSequence ==
    /\ pc = "done"
    /\ \E operation_id \in Ops \cup {NumOps + 1} :
          IF operation_id \notin operations
          THEN sequence' = [operation |-> operation_id, status |-> "ValueError", seq |-> <<>>]
          ELSE IF operation_id \notin graph.nodes
          THEN sequence' = [operation |-> operation_id, status |-> "ok", seq |-> <<>>]
          ELSE LET results == get_operation_sequence(graph, operation_id)
               IN  IF results = {}
                   THEN sequence' = [operation |-> operation_id,
                                     status |-> "NetworkXUnfeasible", seq |-> <<>>]
                   ELSE \E s \in results :
                           sequence' = [operation |-> operation_id, status |-> "ok", seq |-> s]
    /\ UNCHANGED <<model_vars, parser_vars>>
    /\ UNCHANGED <<pc, operations, graph, dependencies, ranks, build_locals,
                   last_call, calls>>

Next ==
    \/ BuildAddOperations
    \/ BuildAnalyze
    \/ BuildResolve
    \/ BuildAdmit
    \/ BuildReduce
    \/ GetOperationSequence

Spec == Init /\ [][Next]_vars

\* ------------------------------------------------------------------------
\* The graph object driven directly: any add_operation / add_dependency calls
\* ------------------------------------------------------------------------
\* kind and confidence of the candidates of direct calls (a DYNAMIC edge)
CallLabel == [type |-> "DYNAMIC", confidence |-> 80]

AddOperation ==
    /\ pc = "start"
    /\ \E op_id \in Ops :
          LET g == add_operation(self_graph, op_id)
          IN  /\ op_id \notin operations
              /\ operations' = g.operations
              /\ graph' = g.graph
              /\ ranks' = g.ranks
    /\ UNCHANGED <<model_vars, parser_vars>>
    /\ UNCHANGED <<pc, dependencies, build_locals, last_call, calls, sequence>>

AddDependency ==
    /\ pc = "start"
    /\ calls < MaxCalls
    /\ \E s \in operations, t \in operations : Admit(Dependency(s, t, CallLabel))
    /\ calls' = calls + 1
    /\ UNCHANGED <<model_vars, parser_vars>>
    /\ UNCHANGED <<pc, build_locals, sequence>>

NextGraph ==
    \/ AddOperation
    \/ AddDependency

SpecGraph == Init /\ [][NextGraph]_vars

\* ------------------------------------------------------------------------
\* The conflict resolver alone: _resolve_conflicts on any candidate list
\* ------------------------------------------------------------------------
InitResolve ==
    /\ pc = "resolve"
    /\ operations = {}
    /\ graph = EmptyGraph
    /\ dependencies = <<>>
    /\ ranks = <<>>
    /\ all_dependencies = <<>>
    /\ merged = <<>>
    /\ resolved_deps = <<>>
    /\ next_dep = 0
    /\ added_count = 0
    /\ skipped_count = 0
    /\ submitted = <<>>
    /\ last_call = NoCall
    /\ calls = 0
    /\ sequence = NoSequence
    /\ builder_operations = <<>>
    /\ previous_build = NoBuild
    /\ execution_history = <<>>
    /\ last_execution = NoExecution
    /\ schemas = <<>>
    /\ call_stack = <<>>
    /\ properties = {}

\* the input list grows by one candidate, in any order
ResolveInput ==
    /\ pc = "resolve"
    /\ Len(all_dependencies) < MaxResolve
    /\ \E dep \in ResolveCandidates : all_dependencies' = Append(all_dependencies, dep)
    /\ UNCHANGED <<model_vars, parser_vars>>
    /\ UNCHANGED <<pc, operations, graph, dependencies, ranks, merged, resolved_deps,
                   next_dep, added_count, skipped_count, submitted, last_call,
                   calls, sequence>>

\* dep_map is grouped and each group merged
ResolveMerge ==
    /\ pc = "resolve"
    /\ merged' = merged_map(all_dependencies)
    /\ pc' = "merged"
    /\ UNCHANGED <<model_vars, parser_vars>>
    /\ UNCHANGED <<operations, graph, dependencies, ranks, all_dependencies,
                   resolved_deps, next_dep, added_count, skipped_count, submitted,
                   last_call, calls, sequence>>

\* the opposing directions are resolved and the list returned
ResolveBidirectional ==
    /\ pc = "merged"
    /\ resolved_deps' = _resolve_bidirectional_conflicts(merged)
    /\ pc' = "resolved"
    /\ UNCHANGED <<model_vars, parser_vars>>
    /\ UNCHANGED <<operations, graph, dependencies, ranks, all_dependencies, merged,
                   next_dep, added_count, skipped_count, submitted, last_call,
                   calls, sequence>>

NextResolve ==
    \/ ResolveInput
    \/ ResolveMerge
    \/ ResolveBidirectional

SpecResolve == InitResolve /\ [][NextResolve]_vars

\* ------------------------------------------------------------------------
\* Builds of parsed documents: the analyzers produce the candidates
\* ------------------------------------------------------------------------
\* what a document declares of one operation; the fields not given are empty
Shape(method, path, produces, consumes) ==
    [method |-> method, path |-> path, produces |-> produces, consumes |-> consumes,
     security |-> FALSE, keywords |-> {}, path_params |-> {}, optional |-> {},
     multi |-> {}, enums |-> <<>>]

PetPath == <<Lit("pet")>>
PetIdPath == <<Lit("pet"), Par("petId")>>

\* the operations of the documents that are built
ModelShapes ==
    { Shape("POST", PetPath, {"id"}, {}),
      [Shape("GET", PetIdPath, {}, {"petId"}) EXCEPT !.path_params = {"petId"}],
      [Shape("PUT", PetIdPath, {}, {"petId"}) EXCEPT !.path_params = {"petId"}],
      [Shape("DELETE", PetIdPath, {}, {"petId"}) EXCEPT !.path_params = {"petId"}],
      Shape("GET", PetPath, {"petId"}, {}),
      [Shape("PUT", PetIdPath, {"id", "petId"}, {"petId"}) EXCEPT !.path_params = {"petId"}],
      [Shape("PATCH", PetIdPath, {"petId"}, {"id"}) EXCEPT !.path_params = {"petId"}],
      [Shape("GET", <<Lit("login")>>, {}, {}) EXCEPT !.keywords = {"AUTH"}],
      [Shape("GET", <<Lit("admin")>>, {}, {}) EXCEPT !.keywords = {"ADMIN"},
                                                    !.security = TRUE] }

\* paths.items() holds one operation per path and method
ParseOperation(shapes, max) ==
    /\ pc = "start"
    /\ Len(builder_operations) < max
    /\ \E shape \in shapes :
          /\ \A i \in DOMAIN builder_operations :
                ~ (/\ builder_operations[i].method = shape.method
                   /\ builder_operations[i].path = shape.path)
          /\ builder_operations' =
                Append(builder_operations, Operation(Len(builder_operations) + 1, shape))
    /\ UNCHANGED parser_vars
    /\ UNCHANGED <<pc, operations, graph, dependencies, ranks, build_locals,
                   last_call, calls, sequence, previous_build, execution_history,
                   last_execution>>

\* self.operations = self.parser.parse(), one operation of the document after
\* the other
ModelParse == ParseOperation(ModelShapes, NumModelOps)

\* the names the operations produce or consume
names_of(operations_list) ==
    UNION { operations_list[i].produces \cup operations_list[i].consumes :
                i \in DOMAIN operations_list }

\* the (kind, source, target) triples of a built graph: an edge and the kind of
\* its recorded dependency
triples_of(g) ==
    { <<g.dependencies[i].type, g.dependencies[i].source, g.dependencies[i].target>> :
        i \in { j \in DOMAIN g.dependencies :
                  <<g.dependencies[j].source, g.dependencies[j].target>> \in g.graph.edges } }

\* DependencyGraphBuilder(spec_path).build() by a new builder, in a process
\* with some order of the hash tables
BuildDocument ==
    /\ pc \in {"start", "done"}
    /\ builder_operations # <<>>
    /\ IF enum_constraints_raise(builder_operations)
       THEN LET g == build_aborted(builder_operations)
            IN  /\ operations' = g.operations
                /\ graph' = g.graph
                /\ dependencies' = g.dependencies
                /\ ranks' = g.ranks
                /\ pc' = "error"
       ELSE /\ \E hash_order \in Perms(names_of(builder_operations)) :
                  LET g == build(builder_operations, hash_order)
                  IN  /\ operations' = g.operations
                      /\ graph' = g.graph
                      /\ dependencies' = g.dependencies
                      /\ ranks' = g.ranks
            /\ pc' = "done"
    /\ previous_build' = IF pc = "done"
                         THEN [built |-> TRUE, triples |-> triples_of(self_graph)]
                         ELSE previous_build
    /\ UNCHANGED parser_vars
    /\ UNCHANGED <<build_locals, last_call, calls, sequence, builder_operations,
                   execution_history, last_execution>>

NextModel ==
    \/ ModelParse
    \/ BuildDocument

SpecModel == Init /\ [][NextModel]_vars

\* ------------------------------------------------------------------------
\* Documents with enum parameters, one of them with a dotted name
\* ------------------------------------------------------------------------
EnumShapes ==
    { Shape("POST", PetPath, {"id"}, {}),
      [Shape("GET", PetIdPath, {}, {"petId"}) EXCEPT !.path_params = {"petId"}],
      [Shape("DELETE", PetIdPath, {}, {"petId"}) EXCEPT !.path_params = {"petId"}],
      [Shape("GET", PetPath, {}, {"status"}) EXCEPT !.enums = <<"status">>],
      [Shape("PUT", PetIdPath, {}, {"petId", "filter.status"})
          EXCEPT !.path_params = {"petId"}, !.enums = <<"filter.status">>] }

EnumParse == ParseOperation(EnumShapes, NumEnumOps)

NextEnum ==
    \/ EnumParse
    \/ BuildDocument

SpecEnum == Init /\ [][NextEnum]_vars

\* ------------------------------------------------------------------------
\* Documents whose operations declare their operationId
\* ------------------------------------------------------------------------
CollisionShapes ==
    { Shape("POST", PetPath, {"id"}, {}),
      [Shape("GET", PetIdPath, {}, {"petId"}) EXCEPT !.path_params = {"petId"}],
      [Shape("DELETE", PetIdPath, {}, {"petId"}) EXCEPT !.path_params = {"petId"}] }

\* _parse_operation: operation_id = spec.get('operationId', ...); the document
\* may give an operation the operationId of an earlier one
CollisionParse ==
    /\ pc = "start"
    /\ Len(builder_operations) < NumCollisionOps
    /\ \E shape \in CollisionShapes, operation_id \in 1..(Len(builder_operations) + 1) :
          /\ \A i \in DOMAIN builder_operations :
                ~ (/\ builder_operations[i].method = shape.method
                   /\ builder_operations[i].path = shape.path)
          /\ builder_operations' =
                Append(builder_operations, Operation(operation_id, shape))
    /\ UNCHANGED parser_vars
    /\ UNCHANGED <<pc, operations, graph, dependencies, ranks, build_locals,
                   last_call, calls, sequence, previous_build, execution_history,
                   last_execution>>

NextCollision ==
    \/ CollisionParse
    \/ BuildDocument

SpecCollision == Init /\ [][NextCollision]_vars

\* ------------------------------------------------------------------------
\* The CRUD analyzer alone, on operations of one resource under several paths
\* ------------------------------------------------------------------------
CrudPaths ==
    { <<Lit("pet")>>,
      <<Lit("pet"), Par("petId")>>,
      <<Lit("store"), Lit("pet")>>,
      <<Lit("pet"), Lit("store"), Lit("pet")>> }

CrudShapes ==
    { Shape(method, path, {}, {}) : method \in {"POST", "GET"}, path \in CrudPaths }

CrudParse == ParseOperation(CrudShapes, NumCrudOps)

\* crud_deps = CRUDDependencyAnalyzer(self.operations).analyze()
CrudAnalyze ==
    /\ pc = "start"
    /\ builder_operations # <<>>
    /\ all_dependencies' = crud_analyze(builder_operations)
    /\ pc' = "analyzed"
    /\ UNCHANGED <<operations, graph, dependencies, ranks, merged, resolved_deps,
                   next_dep, added_count, skipped_count, submitted, last_call,
                   calls, sequence, model_vars, parser_vars>>

NextCrud ==
    \/ CrudParse
    \/ CrudAnalyze

SpecCrud == Init /\ [][NextCrud]_vars

\* ------------------------------------------------------------------------
\* The parameter analyzer alone, on any operations of these shapes
\* ------------------------------------------------------------------------
ParameterPaths ==
    { <<Par("petId")>>,
      <<Lit("__global__")>>,
      <<Lit("pet")>>,
      <<Lit("pet"), Par("petId"), Lit("Search")>> }

ParameterShapes ==
    { Shape(method, path, produces, consumes) :
        method \in {"GET", "POST"},
        path \in ParameterPaths,
        produces \in { {}, {"id"}, {"petId"} },
        consumes \in { {}, {"id"}, {"Id"}, {"petId"} } }

ParameterParse == ParseOperation(ParameterShapes, NumParameterOps)

\* param_deps = ParameterDependencyAnalyzer(self.operations).analyze()
ParameterAnalyze ==
    /\ pc = "start"
    /\ builder_operations # <<>>
    /\ \E hash_order \in Perms(names_of(builder_operations)) :
          all_dependencies' = parameter_analyze(builder_operations, hash_order)
    /\ pc' = "analyzed"
    /\ UNCHANGED <<operations, graph, dependencies, ranks, merged, resolved_deps,
                   next_dep, added_count, skipped_count, submitted, last_call,
                   calls, sequence, model_vars, parser_vars>>

NextParameter ==
    \/ ParameterParse
    \/ ParameterAnalyze

SpecParameter == Init /\ [][NextParameter]_vars

\* ------------------------------------------------------------------------
\* DynamicDependencyManager: runtime feedback on a built graph
\* ------------------------------------------------------------------------
\* DynamicDependencyManager.failure_threshold
failure_threshold == 10

\* DependencyGraph.get_dependencies(operation): the recorded dependencies whose
\* target is the operation
get_dependencies(g, operation_id) ==
    SelectSeq(g.dependencies, LAMBDA d : d.target = operation_id)

\* DependencyGraph.add_dependency of the package: the dependency is recorded
\* and its edge inserted, with no test
core_add_dependency(g, dependency) ==
    [g EXCEPT !.dependencies = Append(@, dependency),
              !.graph = add_edge(@, dependency)]

\* _extract_parameters_from_response: the keys of the response; the responses
\* of the model are flat dicts, given by their keys
_extract_parameters_from_response(response) == response

\* graph.consumers[param] in the order the set of operations is iterated
consumers_index(operations_list, op_order, param) ==
    SelectSeq(op_order, LAMBDA i : param \in operations_list[i].consumes)

\* the dependencies _create_new_parameter_dependencies constructs, in order
new_parameter_dependencies(operations_list, producer, new_params, hash_order, op_order) ==
    LET params == iterate(new_params, hash_order)
    IN  Concat([p \in DOMAIN params |->
            LET consumers == consumers_index(operations_list, op_order, params[p])
            IN  Concat([c \in DOMAIN consumers |->
                    IF producer = consumers[c] THEN <<>>
                    ELSE << NewDependency(producer, consumers[c], "DYNAMIC", 80,
                                          {<<params[p], params[p]>>}) >>])])

RECURSIVE add_all(_, _)
add_all(g, deps) ==
    IF deps = <<>> THEN g
    ELSE add_all(core_add_dependency(g, Head(deps)), Tail(deps))

_create_new_parameter_dependencies(g, operations_list, producer, new_params, hash_order, op_order) ==
    add_all(g, new_parameter_dependencies(operations_list, producer, new_params,
                                          hash_order, op_order))

\* the first statement on a dependency, dep.success_count += 1 or
\* dep.failure_count += 1, reads an attribute the class Dependency does not
\* have: with a dependency into the operation the loop raises AttributeError
\* before anything is changed, without one it does nothing
update_dependency_counts(deps) ==
    IF deps = <<>> THEN "returned" ELSE "AttributeError"

\* _handle_successful_execution: the operations, the graph and how the call ends
_handle_successful_execution(g, operations_list, operation_id, response, hash_order, op_order) ==
    LET new_params == _extract_parameters_from_response(response)
        discovered == new_params \ operations_list[operation_id].produces # {}
        ops1 == IF discovered
                THEN [operations_list EXCEPT ![operation_id].produces = @ \cup new_params]
                ELSE operations_list
        g1 == IF discovered
              THEN _create_new_parameter_dependencies(g, operations_list, operation_id,
                                                      new_params, hash_order, op_order)
              ELSE g
    IN  [operations_list |-> ops1,
         g |-> g1,
         status |-> update_dependency_counts(get_dependencies(g1, operation_id))]

\* _handle_failed_execution
_handle_failed_execution(g, operations_list, operation_id) ==
    [operations_list |-> operations_list,
     g |-> g,
     status |-> update_dependency_counts(get_dependencies(g, operation_id))]

\* execution_history.append(record); the model keeps how many records there
\* are of each operation and outcome
history_append(history, record) ==
    IF record \in DOMAIN history
    THEN [history EXCEPT ![record] = @ + 1]
    ELSE (record :> 1) @@ history

history_count(history, record) ==
    IF record \in DOMAIN history THEN history[record] ELSE 0

\* the records of the outcome
history_of(history, success) ==
    [r \in { x \in DOMAIN history : x.success = success } |-> history[r]]

RECURSIVE history_len(_)
history_len(history) ==
    IF DOMAIN history = {} THEN 0
    ELSE LET r == CHOOSE x \in DOMAIN history : TRUE
         IN  history[r] + history_len([x \in DOMAIN history \ {r} |-> history[x]])

\* ------------------------------------------------------------------------
\* A document is built, then executions are recorded on its graph
\* ------------------------------------------------------------------------
DynamicShapes ==
    { Shape("POST", PetPath, {"id"}, {"name"}),
      [Shape("GET", PetIdPath, {}, {"petId"}) EXCEPT !.path_params = {"petId"}] }

\* the keys of the responses that are recorded
DynamicResponses == { {}, {"name"}, {"petId"} }

DynamicParse == ParseOperation(DynamicShapes, NumDynamicOps)

\* DynamicDependencyManager(graph) on the graph build() returned
NewManager ==
    /\ pc = "done"
    /\ pc' = "manage"
    /\ execution_history' = <<>>
    /\ last_execution' = NoExecution
    /\ UNCHANGED parser_vars
    /\ UNCHANGED <<operations, graph, dependencies, ranks, build_locals, last_call,
                   calls, sequence, builder_operations, previous_build>>

\* the orders in which a set of operations may be iterated; no set is iterated
\* for a response without keys
iteration_orders(operations_list, response) ==
    IF response = {} THEN { SetToSeq(DOMAIN operations_list) }
    ELSE Perms(DOMAIN operations_list)

\* record_execution(operation, success, response, parameters) for an operation
\* of the graph
record_execution(operation_id, success, response, hash_order, op_order) ==
    LET r == IF success
             THEN _handle_successful_execution(self_graph, builder_operations,
                      operation_id, response, hash_order, op_order)
             ELSE _handle_failed_execution(self_graph, builder_operations,
                                           operation_id)
    IN  /\ execution_history' =
              history_append(execution_history,
                             [operation |-> operation_id, success |-> success])
        /\ builder_operations' = r.operations_list
        /\ graph' = r.g.graph
        /\ dependencies' = r.g.dependencies
        /\ last_execution' = [operation |-> operation_id, success |-> success,
                              status |-> r.status]

\* the executions the model still records
MayRecord(success) ==
    /\ history_len(execution_history) < MaxExecutions
    /\ success => history_len(history_of(execution_history, TRUE)) < MaxSuccesses

\* dynamic_manager.record_execution called on an operation of the graph
RecordExecution ==
    /\ pc = "manage"
    /\ \E operation_id \in DOMAIN builder_operations, success \in BOOLEAN :
       \E response \in IF success THEN DynamicResponses ELSE { {} } :
       \E hash_order \in Perms(response) :
       \E op_order \in iteration_orders(builder_operations, response) :
          /\ MayRecord(success)
          /\ record_execution(operation_id, success, response, hash_order, op_order)
    /\ UNCHANGED parser_vars
    /\ UNCHANGED <<pc, operations, ranks, build_locals, last_call, calls, sequence,
                   previous_build>>

\* mutant: the call is recorded before it is rejected
simulate_rejected_recorded(operation_id, success, status) ==
    /\ last_execution' = [operation |-> operation_id, success |-> success,
                          status |-> status]
    /\ execution_history' =
          history_append(execution_history,
                         [operation |-> operation_id, success |-> success])
    /\ UNCHANGED <<builder_operations, graph, dependencies>>

\* simulate_execution raises before record_execution is called
simulate_rejected(operation_id, success, status) ==
    /\ last_execution' = [operation |-> operation_id, success |-> success,
                          status |-> status]
    /\ UNCHANGED <<builder_operations, graph, dependencies, execution_history>>

\* CompleteDependencyGraphBuilder.simulate_execution(operation_id, ...): without
\* a manager RuntimeError, with an id that is not in graph.operations
\* ValueError, else record_execution on the operation of that id
SimulateExecution ==
    /\ pc \in {"done", "manage"}
    /\ \E operation_id \in 1..(Len(builder_operations) + 1), success \in BOOLEAN :
       \E response \in IF success THEN DynamicResponses ELSE { {} } :
       \E hash_order \in Perms(response) :
       \E op_order \in iteration_orders(builder_operations, response) :
          IF pc = "done"
          THEN simulate_rejected(operation_id, success, "RuntimeError")
          ELSE IF operation_id \notin operations
          THEN simulate_rejected(operation_id, success, "ValueError")
          ELSE /\ MayRecord(success)
               /\ record_execution(operation_id, success, response, hash_order,
                                   op_order)
    /\ UNCHANGED parser_vars
    /\ UNCHANGED <<pc, operations, ranks, build_locals, last_call, calls, sequence,
                   previous_build>>

NextDynamic ==
    \/ DynamicParse
    \/ BuildDocument
    \/ NewManager
    \/ RecordExecution
    \/ SimulateExecution

SpecDynamic == Init /\ [][NextDynamic]_vars

\* ------------------------------------------------------------------------
\* OpenAPIParser._extract_schema_properties on the schemas of a document
\* ------------------------------------------------------------------------
\* a schema: '$ref' (the last part of the reference, None without one), 'type',
\* 'properties' in the order of the document, 'items' (no or one schema)
Schema(ref, type, props, items) ==
    [ref |-> ref, type |-> type, properties |-> props, items |-> items]

Property(name, schema) == [name |-> name, schema |-> schema]

RefTo(target) == Schema(target, None, <<>>, <<>>)

\* the schemas a name of components.schemas may stand for, target being the
\* name they refer to
SchemaForms(target) ==
    { RefTo(target),
      Schema(None, "object", <<Property("child", RefTo(target))>>, <<>>),
      Schema(None, "object",
             <<Property("child", Schema(target, "object", <<>>, <<>>))>>, <<>>),
      Schema(None, "array", <<>>, <<RefTo(target)>>),
      Schema(None, "object",
             <<Property("children", Schema(None, "array", <<>>, <<RefTo(target)>>))>>,
             <<>>) }

SchemaNames == {"A", "B"}

\* the documents: each name stands for a schema without reference or for one
\* that refers to a name of the document or to a name it does not define
SchemaSets ==
    [SchemaNames ->
        { Schema(None, "object",
                 <<Property("id", Schema(None, "string", <<>>, <<>>))>>, <<>>) }
        \cup UNION { SchemaForms(target) : target \in SchemaNames \cup {"Missing"} }]

\* the dotted name f"{prefix}.{prop_name}", kept as the sequence of its parts
full_name(prefix, prop_name) == Append(prefix, prop_name)

\* the recursive calls the body of _extract_schema_properties makes for a
\* schema, in order: the referenced schema alone when '$ref' names a known
\* schema, else the object-typed properties and then the items of an array
extract_calls(all_schemas, schema, prefix) ==
    IF schema.ref # None /\ schema.ref \in DOMAIN all_schemas
    THEN << [schema |-> all_schemas[schema.ref], prefix |-> prefix] >>
    ELSE Concat([k \in DOMAIN schema.properties |->
                    IF schema.properties[k].schema.type = "object"
                    THEN << [schema |-> schema.properties[k].schema,
                             prefix |-> full_name(prefix, schema.properties[k].name)] >>
                    ELSE <<>>])
         \o (IF schema.type = "array" /\ schema.items # <<>>
             THEN << [schema |-> schema.items[1], prefix |-> prefix] >>
             ELSE <<>>)

\* the names the body adds to properties for a schema
extract_names(all_schemas, schema, prefix) ==
    IF schema.ref # None /\ schema.ref \in DOMAIN all_schemas THEN {}
    ELSE { full_name(prefix, schema.properties[k].name) : k \in DOMAIN schema.properties }

\* the frame of a call: its arguments and the recursive calls it has yet to make
Frame(all_schemas, call) ==
    [schema |-> call.schema, prefix |-> call.prefix,
     pending |-> extract_calls(all_schemas, call.schema, call.prefix)]

\* _parse_response: produces.update(self._extract_schema_properties(schema)) for
\* a response whose schema refers to schema A of the document
InitSchema ==
    /\ pc = "extract"
    /\ operations = {}
    /\ graph = EmptyGraph
    /\ dependencies = <<>>
    /\ ranks = <<>>
    /\ all_dependencies = <<>>
    /\ merged = <<>>
    /\ resolved_deps = <<>>
    /\ next_dep = 0
    /\ added_count = 0
    /\ skipped_count = 0
    /\ submitted = <<>>
    /\ last_call = NoCall
    /\ calls = 0
    /\ sequence = NoSequence
    /\ builder_operations = <<>>
    /\ previous_build = NoBuild
    /\ execution_history = <<>>
    /\ last_execution = NoExecution
    /\ schemas \in SchemaSets
    /\ call_stack = << Frame(schemas, [schema |-> RefTo("A"), prefix |-> <<>>]) >>
    /\ properties = {}

\* the innermost call makes its next recursive call; the interpreter raises
\* RecursionError where the stack would pass its recursion limit
ExtractCall ==
    /\ pc = "extract"
    /\ call_stack # <<>>
    /\ LET n == Len(call_stack)
           top == call_stack[n]
       IN  /\ top.pending # <<>>
           /\ IF n >= MaxDepth
              THEN /\ pc' = "RecursionError"
                   /\ UNCHANGED <<call_stack, properties>>
              ELSE LET call == Head(top.pending)
                   IN  /\ call_stack' =
                             Append([call_stack EXCEPT ![n].pending = Tail(@)],
                                    Frame(schemas, call))
                       /\ properties' =
                             properties \cup extract_names(schemas, call.schema, call.prefix)
                       /\ pc' = pc
    /\ UNCHANGED <<operations, graph, dependencies, ranks, build_locals, last_call,
                   calls, sequence, model_vars, schemas>>

\* the innermost call has made its calls and returns; the outermost one
\* returns the properties
ExtractReturn ==
    /\ pc = "extract"
    /\ call_stack # <<>>
    /\ call_stack[Len(call_stack)].pending = <<>>
    /\ call_stack' = SubSeq(call_stack, 1, Len(call_stack) - 1)
    /\ pc' = IF Len(call_stack) = 1 THEN "extracted" ELSE pc
    /\ UNCHANGED <<operations, graph, dependencies, ranks, build_locals, last_call,
                   calls, sequence, model_vars, schemas, properties>>

NextSchema ==
    \/ ExtractCall
    \/ ExtractReturn

SpecSchema == InitSchema /\ [][NextSchema]_vars

\* ------------------------------------------------------------------------
\* Properties
\* ------------------------------------------------------------------------
\* the kind priority table as the design states it
KindPriority(kind) ==
    CASE kind = "CRUD" -> 0
      [] kind \in {"AUTHENTICATION", "AUTHORIZATION"} -> 1
      [] kind \in {"WORKFLOW", "NESTED_RESOURCE"} -> 2
      [] kind = "CONSTRAINT" -> 3
      [] kind = "PARAMETER_DATA" -> 4
      [] kind \in {"TRANSITIVE", "DYNAMIC"} -> 5
      [] OTHER -> 99

\* the pairs joined by a directed path of at least one edge
RECURSIVE Warshall(_, _)
Warshall(R, K) ==
    IF K = {} THEN R
    ELSE LET k == CHOOSE x \in K : TRUE
             into == { x \in R : x[2] = k }
             from == { x \in R : x[1] = k }
         IN  Warshall(R \cup { <<e[1], f[2]>> : e \in into, f \in from }, K \ {k})

PathPairs(E) == Warshall(E, { e[1] : e \in E } \cup { e[2] : e \in E })

Acyclic(E) == \A e \in PathPairs(E) : e[1] # e[2]

\* C1: the graph of a build has no directed cycle, after every candidate the
\* admission step has processed and after the transitive reduction
C1_Acyclic == Acyclic(graph.edges)

\* a candidate that would close a cycle over two admitted edges was rejected
C1_Witness ==
    /\ pc = "admit"
    /\ last_call.called
    /\ ~last_call.added
    /\ last_call.dependency.source # last_call.dependency.target
    /\ Cardinality(graph.edges) >= 2

\* C2: the graph build returns has no edge u -> v beside a directed path of
\* two or more edges from u to v
C2_Minimal ==
    pc = "done" =>
        \A e \in graph.edges :
            ~ \E w \in graph.nodes :
                  <<e[1], w>> \in graph.edges /\ <<w, e[2]>> \in PathPairs(graph.edges)

\* the build admitted an edge that the reduction removed
C2_Witness ==
    /\ pc = "done"
    /\ \E i \in DOMAIN dependencies :
          <<dependencies[i].source, dependencies[i].target>> \notin graph.edges

\* C3: a call of the admission test between two nodes returns true and inserts
\* the edge exactly when source and target differ and the graph holds no path
\* from target to source, whether or not the ranks let it skip the search
C3_AdmissionContract ==
    [][ calls' = calls + 1 =>
          LET d == last_call'.dependency
              admissible == /\ d.source # d.target
                            /\ <<d.target, d.source>> \notin PathPairs(graph.edges)
          IN  /\ last_call'.added <=> admissible
              /\ graph'.edges = IF admissible
                                THEN graph.edges \cup {<<d.source, d.target>>}
                                ELSE graph.edges
              /\ dependencies' = IF admissible THEN Append(dependencies, d)
                                 ELSE dependencies ]_vars

\* an edge was admitted on the ranks alone: the rank of its target was already
\* above the rank of its source by more than the update would make it
C3_Witness ==
    /\ calls >= 1
    /\ last_call.called
    /\ last_call.added
    /\ ranks[last_call.dependency.target] > ranks[last_call.dependency.source] + 1

ReverseKey(k) == <<k[2], k[1]>>

\* C4: the list _resolve_conflicts returns holds at most one dependency for an
\* ordered pair and never both directions of a pair of distinct operations
C4_ConflictFree ==
    pc = "resolved" =>
        \A i, j \in DOMAIN resolved_deps :
            i # j =>
                /\ dep_key(resolved_deps[i]) # dep_key(resolved_deps[j])
                /\ dep_key(resolved_deps[i]) # ReverseKey(dep_key(resolved_deps[j]))

\* the input held a pair twice in one direction and once in the other
C4_Witness ==
    /\ pc = "resolved"
    /\ \E i, j, k \in DOMAIN all_dependencies :
          /\ i # j
          /\ all_dependencies[i].source # all_dependencies[i].target
          /\ dep_key(all_dependencies[i]) = dep_key(all_dependencies[j])
          /\ dep_key(all_dependencies[k]) = ReverseKey(dep_key(all_dependencies[i]))

\* C5: neither the graph nor the recorded dependency list of a build holds an
\* edge from an operation to itself
C5_NoSelfLoops ==
    /\ \A e \in graph.edges : e[1] # e[2]
    /\ \A i \in DOMAIN dependencies : dependencies[i].source # dependencies[i].target

\* an analyzer emitted a candidate from an operation to itself and the
\* admission step has processed it
C5_Witness ==
    /\ pc = "admit"
    /\ last_call.called
    /\ last_call.dependency.source = last_call.dependency.target

\* the dependency that wins of two opposing ones, a being the direction met first
Stronger(a, b) ==
    IF KindPriority(a.type) < KindPriority(b.type) THEN a
    ELSE IF KindPriority(b.type) < KindPriority(a.type) THEN b
    ELSE IF a.confidence > b.confidence THEN a
    ELSE IF b.confidence > a.confidence THEN b
    ELSE a

\* C6: of two opposing dependencies present after the merge the resolver keeps
\* exactly one: the lower kind priority, then the higher confidence, then the
\* direction met first
C6_BidirectionalChoice ==
    pc = "resolved" =>
        \A i, j \in DOMAIN merged :
            (i < j /\ dep_key(merged[j]) = ReverseKey(dep_key(merged[i]))) =>
                LET kept == { k \in DOMAIN resolved_deps :
                                dep_key(resolved_deps[k]) \in
                                    {dep_key(merged[i]), dep_key(merged[j])} }
                IN  /\ Cardinality(kept) = 1
                    /\ \A k \in kept : resolved_deps[k] = Stronger(merged[i], merged[j])

\* a PARAMETER_DATA v -> u at 1.0 met first lost against a CRUD u -> v at 0.9
C6_Witness ==
    /\ pc = "resolved"
    /\ \E i, j \in DOMAIN merged :
          /\ i < j
          /\ dep_key(merged[j]) = ReverseKey(dep_key(merged[i]))
          /\ merged[i].type = "PARAMETER_DATA" /\ merged[i].confidence = 100
          /\ merged[j].type = "CRUD" /\ merged[j].confidence = 90
          /\ \E k \in DOMAIN resolved_deps : resolved_deps[k] = merged[j]
          /\ ~ \E k \in DOMAIN resolved_deps : resolved_deps[k] = merged[i]

\* the candidates of one (source, target) in the resolver's input
Group(key) == { i \in DOMAIN all_dependencies : dep_key(all_dependencies[i]) = key }
MinPriority(G) ==
    CHOOSE p \in { KindPriority(all_dependencies[i].type) : i \in G } :
        \A i \in G : p <= KindPriority(all_dependencies[i].type)
MaxConfidence(G) ==
    CHOOSE c \in { all_dependencies[i].confidence : i \in G } :
        \A i \in G : all_dependencies[i].confidence <= c

\* C7: the merge of two or more candidates of one (source, target) has the kind
\* of a member of minimum kind priority (of maximum confidence among those) and
\* the maximum confidence of the whole group
C7_Merge ==
    pc \in {"merged", "resolved"} =>
        \A key \in { dep_key(all_dependencies[i]) : i \in DOMAIN all_dependencies } :
            Cardinality(Group(key)) >= 2 =>
                LET G == Group(key)
                    strongest == { i \in G :
                                     KindPriority(all_dependencies[i].type) = MinPriority(G) }
                    entries == { k \in DOMAIN merged : dep_key(merged[k]) = key }
                IN  /\ Cardinality(entries) = 1
                    /\ \A k \in entries :
                          /\ merged[k].confidence = MaxConfidence(G)
                          /\ \E i \in strongest :
                                /\ all_dependencies[i].type = merged[k].type
                                /\ all_dependencies[i].confidence = MaxConfidence(strongest)

\* a merged dependency took its kind from the more confident of two members of
\* the minimum priority and its confidence from a third member
C7_Witness ==
    /\ pc = "merged"
    /\ \E k \in DOMAIN merged :
          /\ merged[k].type = "AUTHENTICATION"
          /\ merged[k].confidence = 100
          /\ \E i \in Group(dep_key(merged[k])) : all_dependencies[i].type = "AUTHORIZATION"

\* C8: the build hands the candidates to the admission test in ascending kind
\* priority and, at equal priority, in descending confidence
C8_SubmissionOrder ==
    \A i, j \in DOMAIN submitted :
        i < j =>
            \/ KindPriority(submitted[i].type) < KindPriority(submitted[j].type)
            \/ /\ KindPriority(submitted[i].type) = KindPriority(submitted[j].type)
               /\ submitted[i].confidence >= submitted[j].confidence

\* a CRUD candidate emitted after a PARAMETER_DATA candidate was processed
\* before it
C8_Witness ==
    /\ Len(submitted) = 2
    /\ all_dependencies[1].type = "PARAMETER_DATA"
    /\ submitted[1].type = "CRUD"
    /\ submitted[2].type = "PARAMETER_DATA"

\* the edges of the paths from a to b
OnPath(E, a, b) ==
    { e \in E : /\ (e[1] = a \/ <<a, e[1]>> \in PathPairs(E))
                /\ (e[2] = b \/ <<e[2], b>> \in PathPairs(E)) }

\* C9: when the cycle test rejects a candidate of a build, every edge of a
\* blocking path target =>* source has a kind priority not above the candidate's
C9_BlockingPathPriority ==
    (/\ pc = "admit"
     /\ last_call.called
     /\ ~last_call.added
     /\ last_call.dependency.source # last_call.dependency.target) =>
        \A e \in OnPath(graph.edges, last_call.dependency.target,
                        last_call.dependency.source) :
            KindPriority(graph.data[e].dep_type) <= KindPriority(last_call.dependency.type)

\* a PARAMETER_DATA candidate was rejected over a path of CRUD edges
C9_Witness ==
    /\ pc = "admit"
    /\ last_call.called
    /\ ~last_call.added
    /\ last_call.dependency.type = "PARAMETER_DATA"
    /\ last_call.dependency.source # last_call.dependency.target
    /\ \E e \in OnPath(graph.edges, last_call.dependency.target,
                       last_call.dependency.source) :
          graph.data[e].dep_type = "CRUD"

\* the position of a node in a sequence that holds it
Position(s, n) == CHOOSE i \in DOMAIN s : s[i] = n

\* C10: the sequence for a node of the built graph holds the node and its
\* ancestors once each, ends with the node, and has the source of every edge
\* among them before the target
C10_OperationSequence ==
    (pc = "done" /\ sequence.operation \in graph.nodes) =>
        LET op == sequence.operation
            s == sequence.seq
            wanted == {op} \cup { n \in graph.nodes : <<n, op>> \in PathPairs(graph.edges) }
        IN  /\ sequence.status = "ok"
            /\ { s[i] : i \in DOMAIN s } = wanted
            /\ Len(s) = Cardinality(wanted)
            /\ s[Len(s)] = op
            /\ \A e \in graph.edges :
                  (e[1] \in wanted /\ e[2] \in wanted) =>
                      Position(s, e[1]) < Position(s, e[2])

\* the sequence of an operation with two ancestors, one before the other
C10_Witness ==
    /\ pc = "done"
    /\ sequence.status = "ok"
    /\ Len(sequence.seq) = 3
    /\ <<sequence.seq[1], sequence.seq[2]>> \in graph.edges

\* C11: every edge of the graph build returns carries one kind of the defined
\* set, the kind of the dependency it was admitted with
C11_KindTyped ==
    pc = "done" =>
        \A e \in graph.edges :
            /\ graph.data[e].dep_type \in DependencyType
            /\ \E i \in DOMAIN dependencies :
                  /\ <<dependencies[i].source, dependencies[i].target>> = e
                  /\ dependencies[i].type = graph.data[e].dep_type

\* the (kind, source, target) triples of the current graph, an edge taking the
\* kind of its recorded dependency
GraphTriples ==
    { <<dependencies[i].type, dependencies[i].source, dependencies[i].target>> :
        i \in { j \in DOMAIN dependencies :
                  <<dependencies[j].source, dependencies[j].target>> \in graph.edges } }

\* C12: two builds of the same document return graphs with the same (kind,
\* source, target) triples, whatever the iteration order of the name sets
C12_DeterministicBuild ==
    (pc = "done" /\ previous_build.built) => GraphTriples = previous_build.triples

\* the document of scenario S1: POST /pet producing id, and GET, PUT and DELETE
\* /pet/{petId} consuming petId, in any order
ScenarioS1 ==
    /\ Len(builder_operations) = 4
    /\ \A i \in DOMAIN builder_operations :
          LET op == builder_operations[i]
          IN  \/ /\ op.method = "POST"
                 /\ op.path = <<Lit("pet")>>
                 /\ op.produces = {"id"} /\ op.consumes = {}
              \/ /\ op.method \in {"GET", "PUT", "DELETE"}
                 /\ op.path = <<Lit("pet"), Par("petId")>>
                 /\ op.produces = {} /\ op.consumes = {"petId"}
    /\ \A method \in {"POST", "GET", "PUT", "DELETE"} :
          \E i \in DOMAIN builder_operations : builder_operations[i].method = method

\* the operation of scenario S1 with a method
S1Op(method) ==
    CHOOSE i \in DOMAIN builder_operations : builder_operations[i].method = method

\* C13 as stated: the graph built of scenario S1 has exactly the edges
\* createPet -> getPet, createPet -> updatePet and createPet -> deletePet, all of
\* kind CRUD, the getPet -> updatePet edge being removed by the reduction
C13_ScenarioS1Stated ==
    (pc = "done" /\ ScenarioS1) =>
        /\ graph.edges = { <<S1Op("POST"), S1Op("GET")>>,
                           <<S1Op("POST"), S1Op("PUT")>>,
                           <<S1Op("POST"), S1Op("DELETE")>> }
        /\ \A t \in GraphTriples : t[1] = "CRUD"

\* C13, amended: the graph built of scenario S1 has exactly the edges
\* createPet -> getPet, getPet -> updatePet and createPet -> deletePet, each
\* admitted with kind CRUD; four edges are admitted and the reduction removes
\* createPet -> updatePet
C13_ScenarioS1 ==
    (pc = "done" /\ ScenarioS1) =>
        /\ graph.edges = { <<S1Op("POST"), S1Op("GET")>>,
                           <<S1Op("GET"), S1Op("PUT")>>,
                           <<S1Op("POST"), S1Op("DELETE")>> }
        /\ \A t \in GraphTriples : t[1] = "CRUD"
        /\ Len(dependencies) = 4
        /\ \A i \in DOMAIN dependencies : dependencies[i].type = "CRUD"
        /\ \E i \in DOMAIN dependencies :
              /\ dependencies[i].source = S1Op("POST")
              /\ dependencies[i].target = S1Op("PUT")

\* scenario S1 is built, the operations in the order of the document
C13_Witness ==
    /\ pc = "done"
    /\ ScenarioS1
    /\ builder_operations[1].method = "POST"
    /\ Cardinality(graph.edges) = 3

\* C14: the graph built of a document whose operations all have method GET has
\* no edge
C14_GetOnlyNoEdges ==
    (pc = "done" /\ \A i \in DOMAIN builder_operations :
                        builder_operations[i].method = "GET") =>
        graph.edges = {}

\* no operation consumes a name that another operation produces, exactly or
\* up to case, '_' and '-'
NoParameterFlow ==
    \A i, j \in DOMAIN builder_operations :
        i # j =>
            \A n \in builder_operations[i].produces, c \in builder_operations[j].consumes :
                normal(n) # normal(c)

\* C14, amended: in the graph built of a document whose operations all have
\* method GET no edge is of kind CRUD or NESTED_RESOURCE, and there is no edge
\* at all when no operation matches an AUTH keyword, no parameter declares an
\* enum and no operation consumes a name another one produces
C14_GetOnly ==
    (pc = "done" /\ \A i \in DOMAIN builder_operations :
                        builder_operations[i].method = "GET") =>
        /\ \A t \in GraphTriples :
              t[1] \in {"PARAMETER_DATA", "AUTHENTICATION", "AUTHORIZATION",
                        "WORKFLOW", "CONSTRAINT"}
        /\ \A i \in DOMAIN dependencies : dependencies[i].type \notin {"CRUD", "NESTED_RESOURCE"}
        /\ (/\ NoParameterFlow
            /\ \A i \in DOMAIN builder_operations :
                  /\ "AUTH" \notin builder_operations[i].keywords
                  /\ builder_operations[i].enums = <<>>)
           => graph.edges = {}

\* a document of GET operations only was built and its graph has an edge of
\* the parameter flow from a collection to its items
C14_Witness ==
    /\ pc = "done"
    /\ \A i \in DOMAIN builder_operations : builder_operations[i].method = "GET"
    /\ \E t \in GraphTriples :
          /\ t[1] = "PARAMETER_DATA"
          /\ "petId" \in builder_operations[t[2]].produces
          /\ "petId" \in builder_operations[t[3]].consumes

\* the names the design calls GENERIC
GenericNames ==
    { "id", "name", "status", "type", "description", "created_at", "updated_at",
      "timestamp", "count", "total", "data", "result", "message", "code",
      "error", "success", "page", "limit", "offset" }

\* C15: the parameter analyzer emits no candidate, exact or fuzzy, between two
\* operations of distinct resource_type whose matched name is a GENERIC name
C15_GenericNeverCrosses ==
    pc = "analyzed" =>
        \A k \in DOMAIN all_dependencies :
            LET dep == all_dependencies[k]
                u == builder_operations[dep.source]
                v == builder_operations[dep.target]
            IN  u.resource_type # v.resource_type =>
                    \A pair \in dep.parameter_mapping :
                        pair[1] \notin GenericNames /\ pair[2] \notin GenericNames

\* the path holds one of the words login, logout, search, find, in any case
ActionPath(path) ==
    \E i \in DOMAIN path :
        \E word \in {"login", "logout", "search", "find"} : lower(path[i].name) = word

\* C16: the parameter analyzer emits no candidate u -> v, exact or fuzzy, with
\* u a GET and v a POST of the same resource_type whose path holds none of
\* login, logout, search, find (the words in any case)
C16_SemanticBackward ==
    pc = "analyzed" =>
        \A k \in DOMAIN all_dependencies :
            LET u == builder_operations[all_dependencies[k].source]
                v == builder_operations[all_dependencies[k].target]
            IN  ~ (/\ u.method = "GET"
                   /\ v.method = "POST"
                   /\ u.resource_type = v.resource_type
                   /\ ~ActionPath(v.path))

\* a GET produces the name a POST of the same resource consumes: the analyzer
\* emitted nothing for the pair, and did emit the candidate of a POST with a
\* search path
C16_Witness ==
    /\ pc = "analyzed"
    /\ Len(builder_operations) = 2
    /\ builder_operations[1].method = "GET"
    /\ builder_operations[2].method = "POST"
    /\ builder_operations[1].resource_type = "pet"
    /\ builder_operations[2].resource_type = "pet"
    /\ builder_operations[1].produces = {"petId"}
    /\ builder_operations[2].consumes = {"petId"}
    /\ ~ActionPath(builder_operations[2].path)
    /\ all_dependencies = <<>>

\* C17: after any sequence of record_execution calls on a built graph the
\* graph is acyclic
C17_DynamicAcyclic ==
    pc = "manage" => is_directed_acyclic_graph(graph.edges)

\* the failed executions of the operation among the recorded ones
FailedExecutions(history, operation_id) ==
    history_count(history, [operation |-> operation_id, success |-> FALSE])

\* the recorded dependency is among the dependencies and its edge in the graph
Present(dependency, deps, g) ==
    /\ \E k \in DOMAIN deps : deps[k] = dependency
    /\ <<dependency.source, dependency.target>> \in g.edges

\* the step is a record_execution call
Recorded == pc = "manage" /\ execution_history' # execution_history

\* C18: a failed record_execution(op) ends without error, and an edge into op
\* that the build admitted is gone after it exactly if it is the 10th failed
\* execution of op or a later one, whatever succeeded in between
C18_RemovedAtTenthFailure ==
    [][ (Recorded /\ ~last_execution'.success) =>
            LET op == last_execution'.operation
            IN  /\ last_execution'.status = "returned"
                /\ \A k \in DOMAIN dependencies :
                      LET dep == dependencies[k]
                      IN  (/\ dep.target = op
                           /\ dep.type # "DYNAMIC"
                           /\ Present(dep, dependencies, graph)) =>
                              (Present(dep, dependencies', graph')
                                  <=> FailedExecutions(execution_history', op) < failure_threshold) ]_vars

\* confidence in hundredths, to the hundredth below
Times(confidence, tenths) == (confidence * tenths) \div 10

\* C19: a successful record_execution(op) sets the confidence c of each edge
\* into op to min(1.0, 1.1 c), a failed one below the removal threshold to
\* max(0.1, 0.9 c), and every confidence stays within [0.1, 1.0]
C19_ConfidenceUpdate ==
    [][ Recorded =>
            LET op == last_execution'.operation
                ok == last_execution'.success
            IN  \A k \in DOMAIN dependencies :
                    LET c == dependencies[k].confidence
                        up == IF Times(c, 11) > 100 THEN 100 ELSE Times(c, 11)
                        down == IF Times(c, 9) < 10 THEN 10 ELSE Times(c, 9)
                    IN  (dependencies[k].target = op /\ (ok \/ FailedExecutions(execution_history', op) < failure_threshold)) =>
                            /\ k \in DOMAIN dependencies'
                            /\ dependencies'[k].confidence = IF ok THEN up ELSE down
                            /\ dependencies'[k].confidence \in 10..100 ]_vars

\* C20: a successful record_execution(op) returns, every dependency into op is
\* verified after it, and no dependency into another operation has its verified
\* flag or its confidence changed
C20_VerifiedOnSuccess ==
    [][ (Recorded /\ last_execution'.success) =>
            LET op == last_execution'.operation
            IN  /\ last_execution'.status = "returned"
                /\ \A k \in DOMAIN dependencies' :
                      dependencies'[k].target = op => dependencies'[k].verified = TRUE
                /\ \A k \in DOMAIN dependencies :
                      dependencies[k].target # op =>
                          /\ dependencies'[k].verified = dependencies[k].verified
                          /\ dependencies'[k].confidence = dependencies[k].confidence ]_vars

BestEffort(operations_list, hash_order) ==
    LET g0 == add_operations(NewGraph,
                  [i \in DOMAIN operations_list |-> operations_list[i].operation_id])
        others == parameter_analyze(operations_list, hash_order)
                      \o crud_analyze(operations_list)
                      \o logical_analyze(operations_list)
                      \o nested_analyze(operations_list)
        g1 == admit_all(g0, sort_by_priority(_resolve_conflicts(others)))
    IN  [g1 EXCEPT !.graph = transitive_reduction(@)]

\* C22: when the constraint analyzer raises during a build, the build still
\* returns: its graph is the acyclic graph of the candidates of the other
\* analyzers
C22_AnalyzerIsolated ==
    (pc \in {"done", "error"} /\ enum_constraints_raise(builder_operations)) =>
        /\ pc = "done"
        /\ is_directed_acyclic_graph(graph.edges)
        /\ \E hash_order \in Perms(names_of(builder_operations)) :
              graph.edges = BestEffort(builder_operations, hash_order).graph.edges

\* two of the parsed operations share their operation_id
IdCollision ==
    \E i, j \in DOMAIN builder_operations :
        i # j /\ builder_operations[i].operation_id = builder_operations[j].operation_id

\* C23: the build of a document in which two operations share an operation_id
\* fails and produces no graph
C23_CollisionFatal ==
    (pc \in {"done", "error"} /\ IdCollision) =>
        /\ pc = "error"
        /\ graph.edges = {}
        /\ dependencies = <<>>

\* a schema of the document is expanded by two of the active calls
Reentered ==
    \E i, j \in DOMAIN call_stack :
        /\ i < j
        /\ call_stack[i].schema = call_stack[j].schema
        /\ \E name \in DOMAIN schemas : schemas[name] = call_stack[i].schema

\* C24: the extraction of schema properties never expands a schema that is
\* already being expanded, and it ends by returning, for every set of schemas
C24_CutAtReentry ==
    /\ ~Reentered
    /\ pc # "RecursionError"

\* the last segment of the path that is not a {parameter}, None without one
LastLiteral(path) ==
    LET literals == { i \in DOMAIN path : ~path[i].param }
    IN  IF literals = {} THEN None
        ELSE path[CHOOSE i \in literals : \A j \in literals : j <= i].name

\* C25: the resource_type of every parsed operation is the last segment of its
\* path that is not a {parameter}, and is unset when the path has none
C25_ResourceTypeLastLiteral ==
    \A i \in DOMAIN builder_operations :
        builder_operations[i].resource_type = LastLiteral(builder_operations[i].path)

\* the names of the segments of the path that are not parameters, in order
Literals(path) ==
    LET segs == SelectSeq(path, LAMBDA seg : ~seg.param)
    IN  [i \in DOMAIN segs |-> segs[i].name]

IsPrefix(s, t) == Len(s) <= Len(t) /\ SubSeq(t, 1, Len(s)) = s

\* CRUD-related as stated: same resource_type, and the literal segments equal
\* or the ones a prefix of the others
CrudRelatedStated(op1, op2) ==
    /\ op1.resource_type = op2.resource_type
    /\ \/ IsPrefix(Literals(op1.path), Literals(op2.path))
       \/ IsPrefix(Literals(op2.path), Literals(op1.path))

\* C26: the CRUD analyzer emits create -> read for a create (a POST whose path
\* has no parameter) and a GET exactly if the two are CRUD-related as stated
C26_CrudRelatedPrefix ==
    pc = "analyzed" =>
        \A i, j \in DOMAIN builder_operations :
            (/\ builder_operations[i].method = "POST"
             /\ \A s \in DOMAIN builder_operations[i].path :
                   ~builder_operations[i].path[s].param
             /\ builder_operations[j].method = "GET") =>
                ((\E k \in DOMAIN all_dependencies :
                      /\ all_dependencies[k].type = "CRUD"
                      /\ all_dependencies[k].source = i
                      /\ all_dependencies[k].target = j)
                  <=> CrudRelatedStated(builder_operations[i], builder_operations[j]))

\* a directed path of two or more edges leads from u to v
LongPath(E, u, v) == \E e \in E : e[1] = u /\ <<e[2], v>> \in PathPairs(E)

\* C27: the reduction step of build keeps the nodes, removes an edge u -> v of
\* the admitted graph exactly if that graph holds a path of two or more edges
\* from u to v, and leaves every node reaching the nodes it reached before
C27_ReductionStep ==
    [][(pc = "admit" /\ pc' = "done") =>
          /\ graph'.nodes = graph.nodes
          /\ graph'.edges \subseteq graph.edges
          /\ \A e \in graph.edges :
                e \notin graph'.edges <=> LongPath(graph.edges, e[1], e[2])
          /\ PathPairs(graph'.edges) = PathPairs(graph.edges)]_vars

\* the reduction removed an edge and kept the path beside it
C27_Witness ==
    /\ pc = "done"
    /\ \E i \in DOMAIN dependencies :
          LET u == dependencies[i].source
              v == dependencies[i].target
          IN  /\ <<u, v>> \notin graph.edges
              /\ LongPath(graph.edges, u, v)

\* the (source, target) pairs of a dependency list
PairsOf(deps) == { <<deps[i].source, deps[i].target>> : i \in DOMAIN deps }

\* C28: once build has returned, the pairs of the dependency list that
\* get_dependencies, the summary and the exported JSON read are exactly the
\* edges of the graph
C28_ListMatchesGraph ==
    pc = "done" => PairsOf(dependencies) = graph.edges

\* C29: after any sequence of record_execution calls on a built graph the
\* dependency list holds at most one dependency for an ordered pair of
\* operations, so none of type DYNAMIC beside an edge the build admitted
C29_OnePerPair ==
    pc = "manage" =>
        \A i, j \in DOMAIN dependencies :
            (/\ dependencies[i].source = dependencies[j].source
             /\ dependencies[i].target = dependencies[j].target) => i = j

\* C30: after any sequence of add_operation and add_dependency calls every
\* edge of the graph leads from a lower rank to a higher one, and the ranks
\* stay below the number of operations, so that the propagation of
\* _update_ranks comes to an end
C30_RanksOrdered ==
    /\ \A e \in graph.edges : ranks[e[1]] < ranks[e[2]]
    /\ \A op_id \in operations : ranks[op_id] < Cardinality(operations)

\* the last call admitted an edge into a node that had a successor, whose rank
\* the propagation raised
C30_Witness ==
    /\ last_call.called
    /\ last_call.added
    /\ \E e \in graph.edges :
          /\ e[1] = last_call.dependency.target
          /\ ranks[e[1]] = ranks[last_call.dependency.source] + 1
          /\ ranks[e[2]] = ranks[e[1]] + 1
          /\ ranks[e[2]] = 2
====
